---- MODULE Spec2Model ----
(***************************************************************************)
(* Model of src/main.py: the Task record, the TaskManager store and the    *)
(* menu loop that drives it.                                               *)
(*                                                                         *)
(* The Russian literals of the source are written with ASCII labels:       *)
(*   status_options   "новая" / "в работе" / "завершена"                   *)
(*                    = "new" / "in_progress" / "done"                     *)
(*   priority_options "низкий" / "средний" / "высокий"                     *)
(*                    = "low" / "medium" / "high"                          *)
(***************************************************************************)
EXTENDS Integers, Sequences, FiniteSets, TLC

VARIABLES
    file,       \* content of the persistence file self.filename
    tasks,      \* TaskManager.tasks
    next_id,    \* TaskManager.next_id
    call,       \* the call that has just returned or raised, with its arguments;
                \* <<>> while the caller is between calls
    before,     \* tasks and next_id as they were when that call began
    ret,        \* the list that call returned, <<>> when it returned None
    raised,     \* the exception that call raised to its caller, or "none"
    created,    \* history: the ids add_task assigned in this store instance, in order
    deleted,    \* history: the integer ids delete_task was called with in this store
                \* instance, each with next_id as it was at that call
    earlier     \* history: the ids add_task assigned in the store instances of the
                \* runs before this one

vars == <<file, tasks, next_id, call, before, ret, raised, created, deleted, earlier>>

----------------------------------------------------------------------------
(* Bounds *)

\* add_task is explored while next_id <= MaxId
MaxId == 2

----------------------------------------------------------------------------
(* Values *)

None == "None"

status_options == <<"new", "in_progress", "done">>

priority_options == <<"low", "medium", "high">>

Range(s) == {s[i] : i \in DOMAIN s}

\* Python truth value of an optional string argument: None and "" are falsy
Truthy(x) == x # None /\ x # ""

\* str.lower() on the strings the model passes
lower(s) ==
    CASE s = "DONE" -> "done"
      [] s = "New" -> "new"
      [] s = "HIGH" -> "high"
      [] s = "Low" -> "low"
      [] OTHER -> s

\* The instants datetime.now() may return, in the order of the list, each
\* with the text datetime.isoformat() gives it.
IsoText == <<"2024-05-01T09:00:00", "2024-05-01T09:00:00.000001">>

datetimes == 1 .. Len(IsoText)

isoformat(dt) == IsoText[dt]

IsIsoText(s) == \E dt \in datetimes : IsoText[dt] = s

fromisoformat(s) == CHOOSE dt \in datetimes : IsoText[dt] = s

\* int(x) of the task_id strings the menu passes: defined on decimal text
IntText == <<"1", "2", "3">>

CanInt(s) == \E n \in DOMAIN IntText : IntText[n] = s

int(s) == CHOOSE n \in DOMAIN IntText : IntText[n] = s

RECURSIVE SeqMax(_)
SeqMax(s) ==
    IF Len(s) = 1 THEN s[1]
    ELSE LET m == SeqMax(Tail(s)) IN IF s[1] > m THEN s[1] ELSE m

----------------------------------------------------------------------------
(* Task *)

\* Task.__init__ followed by the caller's assignment of created_at
Task(id, title, description, status, priority, created_at) ==
    [id |-> id, title |-> title, description |-> description,
     status |-> status, priority |-> priority, created_at |-> created_at]

to_dict(task) ==
    [id |-> task.id, title |-> task.title, description |-> task.description,
     status |-> task.status, priority |-> task.priority,
     created_at |-> isoformat(task.created_at)]

\* The exception Task.from_dict raises on data, "none" when it returns
from_dict_raises(data) ==
    IF \E k \in {"id", "title", "description", "status", "priority"} : k \notin DOMAIN data
    THEN "KeyError"
    ELSE IF "created_at" \notin DOMAIN data THEN "KeyError"
    ELSE IF ~IsIsoText(data.created_at) THEN "ValueError"
    ELSE "none"

\* from_dict that leaves the status to the default of Task.__init__
from_dict_default_status(data) ==
    Task(data.id, data.title, data.description, "new", data.priority,
         fromisoformat(data.created_at))

from_dict(data) ==
    Task(data.id, data.title, data.description, data.status, data.priority,
         fromisoformat(data.created_at))

----------------------------------------------------------------------------
(* The persistence file *)

\* open(filename, "r") raises FileNotFoundError
MissingFile == [kind |-> "missing", data |-> <<>>]

\* json.load raises JSONDecodeError
GarbageFile == [kind |-> "garbage", data |-> <<>>]

\* json.dump of a list of dicts, as json.load reads it back
json_dump(dicts) == [kind |-> "json", data |-> dicts]

Rec(id, title, status, priority, text) ==
    [id |-> id, title |-> title, description |-> "x", status |-> status,
     priority |-> priority, created_at |-> text]

\* The files a store may be constructed against before this program ever saved
Files ==
    { MissingFile,
      GarbageFile,
      \* two records, the later one first
      json_dump(<<Rec(1, "a", "new", "medium", IsoText[2]),
                  Rec(2, "a", "done", "high", IsoText[1])>>),
      \* two records with one id
      json_dump(<<Rec(1, "a", "new", "medium", IsoText[1]),
                  Rec(1, "b", "done", "low", IsoText[2])>>),
      \* a status and a priority outside the option lists
      json_dump(<<Rec(1, "a", "archived", "urgent", IsoText[1])>>),
      \* a record without the key "priority", after a well-formed one
      json_dump(<<Rec(1, "a", "new", "medium", IsoText[1]),
                  [id |-> 2, title |-> "a", description |-> "x", status |-> "new",
                   created_at |-> IsoText[1]]>>),
      \* a created_at that is no ISO timestamp
      json_dump(<<Rec(1, "a", "new", "medium", "yesterday")>>) }

\* load_tasks whose except clause names FileNotFoundError alone
load_tasks_uncaught(f) ==
    IF f.kind = "missing"
    THEN [tasks |-> <<>>, next_id |-> 1, raised |-> "none"]
    ELSE IF f.kind = "garbage"
    THEN [tasks |-> <<>>, next_id |-> 1, raised |-> "JSONDecodeError"]
    ELSE IF \E i \in DOMAIN f.data : from_dict_raises(f.data[i]) # "none"
    THEN [tasks |-> <<>>, next_id |-> 1, raised |-> "KeyError"]
    ELSE LET ts == [i \in DOMAIN f.data |-> from_dict(f.data[i])]
         IN  [tasks |-> ts,
              next_id |-> IF ts # <<>>
                          THEN SeqMax([i \in DOMAIN ts |-> ts[i].id]) + 1
                          ELSE 1,
              raised |-> "none"]

\* load_tasks that sets next_id to one more than the number of tasks loaded
load_tasks_count(f) ==
    IF f.kind \in {"missing", "garbage"}
    THEN [tasks |-> <<>>, next_id |-> 1, raised |-> "none"]
    ELSE IF \E i \in DOMAIN f.data : from_dict_raises(f.data[i]) # "none"
    THEN LET i == CHOOSE j \in DOMAIN f.data :
                      /\ from_dict_raises(f.data[j]) # "none"
                      /\ \A k \in 1 .. (j - 1) : from_dict_raises(f.data[k]) = "none"
         IN  [tasks |-> <<>>, next_id |-> 1, raised |-> from_dict_raises(f.data[i])]
    ELSE LET ts == [i \in DOMAIN f.data |-> from_dict(f.data[i])]
         IN  [tasks |-> ts, next_id |-> Len(ts) + 1, raised |-> "none"]

\* TaskManager.load_tasks on a manager whose fields __init__ has just set:
\* the fields after the call and the exception it raised
load_tasks(f) ==
    IF f.kind \in {"missing", "garbage"}
    THEN [tasks |-> <<>>, next_id |-> 1, raised |-> "none"]
    ELSE IF \E i \in DOMAIN f.data : from_dict_raises(f.data[i]) # "none"
    THEN LET i == CHOOSE j \in DOMAIN f.data :
                      /\ from_dict_raises(f.data[j]) # "none"
                      /\ \A k \in 1 .. (j - 1) : from_dict_raises(f.data[k]) = "none"
         IN  [tasks |-> <<>>, next_id |-> 1, raised |-> from_dict_raises(f.data[i])]
    ELSE LET ts == [i \in DOMAIN f.data |-> from_dict(f.data[i])]
         IN  [tasks |-> ts,
              next_id |-> IF ts # <<>>
                          THEN SeqMax([i \in DOMAIN ts |-> ts[i].id]) + 1
                          ELSE 1,
              raised |-> "none"]

----------------------------------------------------------------------------
(* TaskManager *)

\* validate_input that returns the accepted value in the letter case it came in
validate_input_as_typed(value, options, default) ==
    IF lower(value) \in Range(options) THEN value ELSE default

validate_input(value, options, default) ==
    IF lower(value) \in Range(options) THEN lower(value) ELSE default

\* The fields of a manager
Fields(ts, n) == [tasks |-> ts, next_id |-> n]

\* The caller is between two calls on a manager: no call has raised (main
\* catches nothing, so an exception ends the run) and main has not left its
\* loop after save_tasks
Idle == call = <<>>

\* TaskManager.__init__: lines 43-44 set the fields, load_tasks replaces them
Construct ==
    LET r == load_tasks(file) IN
    /\ before' = Fields(<<>>, 1)
    /\ tasks' = r.tasks
    /\ next_id' = r.next_id
    /\ raised' = r.raised
    /\ call' = <<"__init__">>
    /\ ret' = <<>>
    /\ created' = <<>>
    /\ deleted' = {}
    /\ earlier' = IF call[1] = "save_tasks" /\ raised = "none"
                  THEN earlier \cup Range(created)
                  ELSE earlier
    /\ UNCHANGED file

Init ==
    /\ file \in Files
    /\ before = Fields(<<>>, 1)
    /\ LET r == load_tasks(file) IN
       /\ tasks = r.tasks
       /\ next_id = r.next_id
       /\ raised = r.raised
    /\ call = <<"__init__">>
    /\ ret = <<>>
    /\ created = <<>>
    /\ deleted = {}
    /\ earlier = {}

\* add_task that leaves next_id as it was
add_task_same_next_id(title, description, priority, now) ==
    /\ Idle
    /\ next_id <= MaxId
    /\ Len(tasks) < MaxId
    /\ call' = <<"add_task", title, description, priority>>
    /\ before' = Fields(tasks, next_id)
    /\ tasks' = Append(tasks,
                       Task(next_id, title, description, "new",
                            validate_input(priority, priority_options, "medium"), now))
    /\ created' = Append(created, next_id)
    /\ ret' = <<>>
    /\ raised' = "none"
    /\ UNCHANGED <<file, next_id, deleted, earlier>>

\* add_task that numbers the new task by the length of the collection
add_task_by_len(title, description, priority, now) ==
    /\ Idle
    /\ next_id <= MaxId
    /\ call' = <<"add_task", title, description, priority>>
    /\ before' = Fields(tasks, next_id)
    /\ tasks' = Append(tasks,
                       Task(Len(tasks) + 1, title, description, "new",
                            validate_input(priority, priority_options, "medium"), now))
    /\ next_id' = next_id + 1
    /\ created' = Append(created, Len(tasks) + 1)
    /\ ret' = <<>>
    /\ raised' = "none"
    /\ UNCHANGED <<file, deleted, earlier>>

add_task(title, description, priority, now) ==
    /\ Idle
    /\ next_id <= MaxId
    /\ call' = <<"add_task", title, description, priority>>
    /\ before' = Fields(tasks, next_id)
    /\ tasks' = Append(tasks,
                       Task(next_id, title, description, "new",
                            validate_input(priority, priority_options, "medium"), now))
    /\ next_id' = next_id + 1
    /\ created' = Append(created, next_id)
    /\ ret' = <<>>
    /\ raised' = "none"
    /\ UNCHANGED <<file, deleted, earlier>>

\* The position of the task edit_task's next(...) finds in ts, 0 when it finds none
find(ts, task_id) ==
    IF \E i \in DOMAIN ts : ts[i].id = int(task_id)
    THEN CHOOSE i \in DOMAIN ts :
             /\ ts[i].id = int(task_id)
             /\ \A j \in 1 .. (i - 1) : ts[j].id # int(task_id)
    ELSE 0

\* edited that takes every argument other than None as supplied
edited_not_none(task, title, description, status, priority) ==
    [task EXCEPT
        !.title = IF title # None THEN title ELSE @,
        !.description = IF description # None THEN description ELSE @,
        !.status = IF status # None
                   THEN validate_input(status, status_options, @) ELSE @,
        !.priority = IF priority # None
                     THEN validate_input(priority, priority_options, @) ELSE @]

\* edited that falls back to the defaults of a new task
edited_global_default(task, title, description, status, priority) ==
    [task EXCEPT
        !.title = IF Truthy(title) THEN title ELSE @,
        !.description = IF Truthy(description) THEN description ELSE @,
        !.status = IF Truthy(status)
                   THEN validate_input(status, status_options, "new") ELSE @,
        !.priority = IF Truthy(priority)
                     THEN validate_input(priority, priority_options, "medium") ELSE @]

\* The task edit_task leaves in place of task
edited(task, title, description, status, priority) ==
    [task EXCEPT
        !.title = IF Truthy(title) THEN title ELSE @,
        !.description = IF Truthy(description) THEN description ELSE @,
        !.status = IF Truthy(status)
                   THEN validate_input(status, status_options, @) ELSE @,
        !.priority = IF Truthy(priority)
                     THEN validate_input(priority, priority_options, @) ELSE @]

\* int(task_id) is evaluated inside the generator, once per task visited:
\* on an empty collection it is never evaluated
edit_task(task_id, title, description, status, priority) ==
    /\ Idle
    /\ call' = <<"edit_task", task_id, title, description, status, priority>>
    /\ before' = Fields(tasks, next_id)
    /\ IF tasks # <<>> /\ ~CanInt(task_id)
       THEN /\ raised' = "ValueError"
            /\ tasks' = tasks
       ELSE /\ raised' = "none"
            /\ IF tasks # <<>> /\ find(tasks, task_id) # 0
               THEN tasks' = [tasks EXCEPT ![find(tasks, task_id)] =
                                 edited(@, title, description, status, priority)]
               ELSE tasks' = tasks
    /\ ret' = <<>>
    /\ UNCHANGED <<file, next_id, created, deleted, earlier>>

\* delete_task that removes the first task with the id and no other
delete_task_first(task_id) ==
    /\ Idle
    /\ call' = <<"delete_task", task_id>>
    /\ before' = Fields(tasks, next_id)
    /\ IF tasks # <<>> /\ ~CanInt(task_id)
       THEN /\ raised' = "ValueError"
            /\ tasks' = tasks
       ELSE /\ raised' = "none"
            /\ tasks' = IF tasks = <<>> \/ find(tasks, task_id) = 0 THEN tasks
                        ELSE SubSeq(tasks, 1, find(tasks, task_id) - 1)
                             \o SubSeq(tasks, find(tasks, task_id) + 1, Len(tasks))
    /\ deleted' = IF CanInt(task_id)
                   THEN deleted \cup {[id |-> int(task_id), next_id |-> next_id]}
                   ELSE deleted
    /\ ret' = <<>>
    /\ UNCHANGED <<file, next_id, created, earlier>>

\* int(task_id) is evaluated inside the comprehension, once per task
delete_task(task_id) ==
    /\ Idle
    /\ call' = <<"delete_task", task_id>>
    /\ before' = Fields(tasks, next_id)
    /\ IF tasks # <<>> /\ ~CanInt(task_id)
       THEN /\ raised' = "ValueError"
            /\ tasks' = tasks
       ELSE /\ raised' = "none"
            /\ tasks' = IF tasks = <<>> THEN <<>>
                        ELSE SelectSeq(tasks, LAMBDA t : t.id # int(task_id))
    /\ deleted' = IF CanInt(task_id)
                   THEN deleted \cup {[id |-> int(task_id), next_id |-> next_id]}
                   ELSE deleted
    /\ ret' = <<>>
    /\ UNCHANGED <<file, next_id, created, earlier>>

\* sorted that returns the list in the order it came
unsorted(s) == s

\* sorted(s, key=lambda t: t.created_at): a stable sort
RECURSIVE sorted(_)
sorted(s) ==
    IF s = <<>> THEN <<>>
    ELSE LET front == sorted(SubSeq(s, 1, Len(s) - 1))
             t == s[Len(s)]
             k == Cardinality({i \in DOMAIN front : front[i].created_at <= t.created_at})
         IN  SubSeq(front, 1, k) \o <<t>> \o SubSeq(front, k + 1, Len(front))

\* The value TaskManager.list_tasks returns on the collection ts
listing(ts, status_filter, priority_filter) ==
    LET by_status == IF Truthy(status_filter)
                     THEN SelectSeq(ts, LAMBDA t : t.status = status_filter)
                     ELSE ts
        by_priority == IF Truthy(priority_filter)
                       THEN SelectSeq(by_status, LAMBDA t : t.priority = priority_filter)
                       ELSE by_status
    IN  sorted(by_priority)

\* list_tasks that sorts the collection itself (self.tasks.sort) when no
\* filter has made a copy of it
list_tasks_in_place(status_filter, priority_filter) ==
    /\ Idle
    /\ call' = <<"list_tasks", status_filter, priority_filter>>
    /\ before' = Fields(tasks, next_id)
    /\ ret' = listing(tasks, status_filter, priority_filter)
    /\ tasks' = IF Truthy(status_filter) \/ Truthy(priority_filter)
                THEN tasks ELSE sorted(tasks)
    /\ raised' = "none"
    /\ UNCHANGED <<file, next_id, created, deleted, earlier>>

list_tasks(status_filter, priority_filter) ==
    /\ Idle
    /\ call' = <<"list_tasks", status_filter, priority_filter>>
    /\ before' = Fields(tasks, next_id)
    /\ ret' = listing(tasks, status_filter, priority_filter)
    /\ raised' = "none"
    /\ UNCHANGED <<file, tasks, next_id, created, deleted, earlier>>

\* menu_filter that passes every non-empty text on
menu_filter_raw(text, options) ==
    IF Truthy(text) THEN lower(text) ELSE None

\* The filter main passes to list_tasks for the text typed at a filter prompt
menu_filter(text, options) ==
    IF lower(text) \in Range(options) THEN lower(text) ELSE None

\* main, choice "4": the tasks it prints for the texts typed at its two prompts
menu_list(status_text, priority_text) ==
    /\ Idle
    /\ call' = <<"menu_list", status_text, priority_text>>
    /\ before' = Fields(tasks, next_id)
    /\ ret' = listing(tasks, menu_filter(status_text, status_options),
                             menu_filter(priority_text, priority_options))
    /\ raised' = "none"
    /\ UNCHANGED <<file, tasks, next_id, created, deleted, earlier>>

\* save_tasks that drops the collection when the write fails
save_tasks_drops_on_failure(outcome) ==
    /\ Idle
    /\ call' = <<"save_tasks", outcome>>
    /\ before' = Fields(tasks, next_id)
    /\ file' = CASE outcome = "written" ->
                        json_dump([i \in DOMAIN tasks |-> to_dict(tasks[i])])
                 [] outcome = "open_failed" -> file
                 [] outcome = "write_failed" -> GarbageFile
    /\ raised' = IF outcome = "written" THEN "none" ELSE "OSError"
    /\ tasks' = IF outcome = "written" THEN tasks ELSE <<>>
    /\ ret' = <<>>
    /\ UNCHANGED <<next_id, created, deleted, earlier>>

\* TaskManager.save_tasks, called by main's choice "5", which then leaves
\* the loop. open(..., "w") may fail and leave the file as it was; a write
\* that fails after the file was truncated leaves text json.load rejects.
save_tasks(outcome) ==
    /\ Idle
    /\ call' = <<"save_tasks", outcome>>
    /\ before' = Fields(tasks, next_id)
    /\ file' = CASE outcome = "written" ->
                        json_dump([i \in DOMAIN tasks |-> to_dict(tasks[i])])
                 [] outcome = "open_failed" -> file
                 [] outcome = "write_failed" -> GarbageFile
    /\ raised' = IF outcome = "written" THEN "none" ELSE "OSError"
    /\ ret' = <<>>
    /\ UNCHANGED <<tasks, next_id, created, deleted, earlier>>

\* The caller goes on to its next call: the loop of main comes back to the
\* menu after a choice that raised nothing and was not choice "5"
Resume ==
    /\ call # <<>>
    /\ call[1] # "save_tasks"
    /\ raised = "none"
    /\ call' = <<>>
    /\ before' = Fields(<<>>, 1)
    /\ ret' = <<>>
    /\ UNCHANGED <<file, tasks, next_id, raised, created, deleted, earlier>>

\* A later run of the program: main constructs its manager against the file
\* the run before left
Start ==
    /\ call # <<>>
    /\ call[1] = "save_tasks" \/ raised # "none"
    /\ Construct

----------------------------------------------------------------------------
(* Inputs *)

TaskIds == {"1", "2", "abc"}

PriorityInputs == {"HIGH", "urgent"}

StatusInputs == {"", "DONE", "archived"}

OptionalPriorities == {None, "low", "urgent"}

StatusFilters == {None, "new", "in_progress", "done", "archived"}

PriorityFilters == {None, "high", "urgent"}

StatusTexts == {"", "DONE", "archived"}

PriorityTexts == {"", "HIGH", "urgent"}

SaveOutcomes == {"written", "open_failed", "write_failed"}

\* One run of the program, with the statuses, priorities and creation times varied
Next ==
    \/ \E priority \in PriorityInputs, now \in datetimes :
          add_task("a", "x", priority, now)
    \/ \E task_id \in TaskIds, status \in StatusInputs, priority \in OptionalPriorities :
          edit_task(task_id, "", None, status, priority)
    \/ \E task_id \in TaskIds : delete_task(task_id)
    \/ \E status_filter \in StatusFilters, priority_filter \in PriorityFilters :
          list_tasks(status_filter, priority_filter)
    \/ \E status_text \in StatusTexts, priority_text \in PriorityTexts :
          menu_list(status_text, priority_text)
    \/ \E outcome \in SaveOutcomes : save_tasks(outcome)
    \/ Resume

\* One run of the program, with every argument of edit_task absent, empty
\* and supplied
NextEdit ==
    \/ add_task("a", "x", "HIGH", 1)
    \/ \E task_id \in {"1", "2"}, title \in {None, "", "b"},
          description \in {None, "", "y"}, status \in {None, "DONE", "archived"},
          priority \in {None, "low", "urgent"} :
          edit_task(task_id, title, description, status, priority)
    \/ delete_task("1")
    \/ list_tasks(None, None)
    \/ menu_list("", "")
    \/ \E outcome \in SaveOutcomes : save_tasks(outcome)
    \/ Resume

SpecEdit == Init /\ [][NextEdit]_vars

Spec == Init /\ [][Next]_vars

\* Runs of the program one after another over one persistence file, with
\* the titles, statuses and creation times varied
NextRestart ==
    \/ \E now \in datetimes : add_task("a", "x", "HIGH", now)
    \/ \E task_id \in {"1", "2"}, title \in {"", "b"}, status \in {"", "DONE"} :
          edit_task(task_id, title, None, status, None)
    \/ \E task_id \in {"1", "2"} : delete_task(task_id)
    \/ list_tasks(None, None)
    \/ menu_list("", "")
    \/ \E outcome \in SaveOutcomes : save_tasks(outcome)
    \/ Resume
    \/ Start

SpecRestart == Init /\ [][NextRestart]_vars

----------------------------------------------------------------------------
(* Properties *)

Ids(ts) == {ts[i].id : i \in DOMAIN ts}

\* task_id is the id of a task of ts
Matches(ts, task_id) == CanInt(task_id) /\ int(task_id) \in Ids(ts)

Called(name) == call # <<>> /\ call[1] = name

\* The number of places of the sequence s that hold t
Count(s, t) == Cardinality({i \in DOMAIN s : s[i] = t})

NonDecreasing(s) ==
    \A i, j \in DOMAIN s : i < j => s[i].created_at <= s[j].created_at

Member(x, options) == x \in Range(options)

\* C1: no two tasks of the collection have the same id, in every state
\* reachable by construction from the file, create, edit, delete, list and save.
C1_UniqueIds ==
    \A i, j \in DOMAIN tasks : i # j => tasks[i].id # tasks[j].id

\* C2: when add_task returns, the id of the task it appended is next_id as it
\* was before the call and is strictly greater than every id add_task
\* assigned earlier in this store instance, deleted tasks included, and
\* next_id is greater by exactly 1 than before the call.
C2_CreateIdsIncrease ==
    Called("add_task") =>
        /\ Len(tasks) = Len(before.tasks) + 1
        /\ tasks[Len(tasks)].id = before.next_id
        /\ created[Len(created)] = tasks[Len(tasks)].id
        /\ \A k \in 1 .. (Len(created) - 1) : created[k] < tasks[Len(tasks)].id
        /\ next_id = before.next_id + 1

\* a second create, after the task of the first one was deleted
C2_Witness ==
    /\ Called("add_task")
    /\ Len(created) = 2
    /\ created[1] \notin Ids(tasks)
    /\ \E r \in deleted : r.id = created[1]

\* C3: in every reachable state the status of every task is in
\* status_options and its priority is in priority_options.
C3_FieldsInOptions ==
    \A i \in DOMAIN tasks :
        /\ Member(tasks[i].status, status_options)
        /\ Member(tasks[i].priority, priority_options)

\* C4: a save that wrote the file, followed by the construction of a fresh
\* store against that file, gives a store with the same tasks (ids and all
\* fields) as the store that saved, and next_id = 1 + the greatest id, 1 for
\* an empty collection; the construction raises nothing.
C4_SaveThenLoad ==
    [][(call = <<"save_tasks", "written">> /\ Called("__init__")')
       => /\ tasks' = tasks
          /\ raised' = "none"
          /\ next_id' = IF tasks = <<>> THEN 1
                        ELSE 1 + (CHOOSE m \in Ids(tasks) : \A n \in Ids(tasks) : n <= m)]_vars

\* a store constructed from a file save_tasks wrote, holding two tasks that
\* differ in title, status, priority and creation time
C4_Witness ==
    /\ Called("__init__")
    /\ file.kind = "json"
    /\ file \notin Files
    /\ Len(tasks) = 2
    /\ tasks[1].title # tasks[2].title
    /\ tasks[1].status # tasks[2].status
    /\ tasks[1].priority # tasks[2].priority
    /\ tasks[1].created_at # tasks[2].created_at

C6_MalformedRecordFallback ==
    (/\ Called("__init__")
     /\ file.kind = "json"
     /\ \E i \in DOMAIN file.data : from_dict_raises(file.data[i]) # "none")
        => (tasks = <<>> /\ next_id = 1 /\ raised = "none")

\* C7: edit_task with a task_id that matches no task leaves the
\* collection as it was and raises nothing.
C7_EditUnknownId ==
    (Called("edit_task") /\ ~Matches(before.tasks, call[2]))
        => (tasks = before.tasks /\ raised = "none")

\* No list call returns a task with the id n
NeverListed(n) ==
    \A status_filter \in StatusFilters, priority_filter \in PriorityFilters :
        n \notin Ids(listing(tasks, status_filter, priority_filter))

\* delete_task with an id that matches no task leaves the collection (tasks,
\* fields, order) and next_id as they were
DeleteUnknownIdKeeps ==
    (Called("delete_task") /\ ~Matches(before.tasks, call[2]))
        => (tasks = before.tasks /\ next_id = before.next_id)

\* C8 as claimed: after delete_task(task_id) no later list of this store
\* instance, whatever its filters, returns a task with that id; and
\* delete_task with an id that matches no task changes neither the
\* collection nor next_id.
C8_DeletedNeverListed ==
    /\ \A r \in deleted : NeverListed(r.id)
    /\ DeleteUnknownIdKeeps

\* C8 as amended: after delete_task(task_id) with task_id below next_id, as
\* the id of every task of the collection is, no later list of this store
\* instance, whatever its filters, returns a task with that id; and
\* delete_task with an id that matches no task changes neither the
\* collection nor next_id.
C8_DeletedBelowNextIdNeverListed ==
    /\ \A r \in deleted : r.id < r.next_id => NeverListed(r.id)
    /\ DeleteUnknownIdKeeps

\* a task was created and deleted, and a create and a list came after
C8_Witness ==
    /\ Called("list_tasks")
    /\ ret # <<>>
    /\ \E r \in deleted : r.id < r.next_id /\ r.id \in Range(created)
    /\ \E k \in DOMAIN created : \E r \in deleted : r.id < created[k]

\* C9: list_tasks with a status of status_options as its only filter
\* returns exactly the tasks of the collection with that status, and with no
\* filter every task of the collection, in both cases in non-decreasing
\* order of created_at.
C9_ListByStatus ==
    (/\ Called("list_tasks")
     /\ call[2] \in Range(status_options) \cup {None}
     /\ call[3] = None)
        => /\ NonDecreasing(ret)
           /\ \A t \in Range(tasks) \cup Range(ret) :
                 Count(ret, t) = IF call[2] = None \/ t.status = call[2]
                                 THEN Count(tasks, t) ELSE 0

\* a list by status that returns two tasks in the reverse of their stored order
C9_Witness ==
    /\ Called("list_tasks")
    /\ call[2] = "done"
    /\ call[3] = None
    /\ Len(tasks) = 2
    /\ ret = <<tasks[2], tasks[1]>>
    /\ tasks[2].created_at < tasks[1].created_at

\* C10 as claimed: list_tasks with a non-empty filter that is not in its
\* option list returns what it returns without that filter, and raises nothing.
C10_UnknownFilterIgnored ==
    Called("list_tasks") =>
        /\ raised = "none"
        /\ (Truthy(call[2]) /\ ~Member(call[2], status_options))
              => ret = listing(tasks, None, call[3])
        /\ (Truthy(call[3]) /\ ~Member(call[3], priority_options))
              => ret = listing(tasks, call[2], None)

\* C10 as amended: the list choice of main's menu, given a non-empty
\* status or priority text that is not in its option list, lists what it
\* lists without that filter, and raises nothing; list_tasks itself applies
\* every non-empty filter by equality, so that for a value outside the
\* option list it returns the tasks that hold exactly that value.
C10_MenuIgnoresUnknownFilter ==
    /\ Called("menu_list") =>
          /\ raised = "none"
          /\ (Truthy(call[2]) /\ ~Member(lower(call[2]), status_options))
                => ret = listing(tasks, None, menu_filter(call[3], priority_options))
          /\ (Truthy(call[3]) /\ ~Member(lower(call[3]), priority_options))
                => ret = listing(tasks, menu_filter(call[2], status_options), None)
    /\ Called("list_tasks") =>
          /\ raised = "none"
          /\ Truthy(call[2]) => \A i \in DOMAIN ret : ret[i].status = call[2]
          /\ Truthy(call[3]) => \A i \in DOMAIN ret : ret[i].priority = call[3]

\* the menu lists both tasks of the collection for a status text outside the
\* option list
C10_Witness ==
    /\ Called("menu_list")
    /\ call[2] = "archived"
    /\ call[3] = ""
    /\ Len(tasks) = 2
    /\ Len(ret) = 2

\* The position of the first task of ts with the id n
FirstWithId(ts, n) ==
    CHOOSE i \in DOMAIN ts : ts[i].id = n /\ \A j \in 1 .. (i - 1) : ts[j].id # n

\* C11: edit_task on an existing task with a non-empty status (priority)
\* that is in no letter case a member of its option list leaves the field
\* at the value it had before the call, and still applies the other fields
\* the call supplies; with a value that is a member in some letter case it
\* sets the field to the lower-cased value.
C11_EditKeepsPreviousOnInvalid ==
    (Called("edit_task") /\ Matches(before.tasks, call[2])) =>
        LET i == FirstWithId(before.tasks, int(call[2]))
            old == before.tasks[i]
            new == tasks[i]
            bad_status == Truthy(call[5]) /\ ~Member(lower(call[5]), status_options)
            bad_priority == Truthy(call[6]) /\ ~Member(lower(call[6]), priority_options)
        IN  /\ raised = "none"
            /\ bad_status => new.status = old.status
            /\ bad_priority => new.priority = old.priority
            /\ (Truthy(call[5]) /\ ~bad_status) => new.status = lower(call[5])
            /\ (Truthy(call[6]) /\ ~bad_priority) => new.priority = lower(call[6])
            /\ (bad_status \/ bad_priority) =>
                  /\ Truthy(call[3]) => new.title = call[3]
                  /\ Truthy(call[4]) => new.description = call[4]

\* an edit with an invalid status on a task whose status is not the default:
\* the status stays, the title and the priority of the same call are applied
C11_Witness ==
    /\ Called("edit_task")
    /\ call[5] = "archived"
    /\ call[3] = "b"
    /\ call[6] = "low"
    /\ Matches(before.tasks, call[2])
    /\ LET i == FirstWithId(before.tasks, int(call[2])) IN
          /\ before.tasks[i].status = "done"
          /\ before.tasks[i].title = "a"
          /\ before.tasks[i].priority = "high"
          /\ tasks[i].status = "done"
          /\ tasks[i].title = "b"
          /\ tasks[i].priority = "low"

\* C12: add_task with a priority string that is in no letter case a member
\* of priority_options raises nothing and appends one task with priority
\* medium and status new; a string that is a member in some letter case
\* gives the task the lower-cased member. The tasks already there stay.
C12_CreatePriorityFallback ==
    Called("add_task") =>
        /\ raised = "none"
        /\ Len(tasks) = Len(before.tasks) + 1
        /\ SubSeq(tasks, 1, Len(before.tasks)) = before.tasks
        /\ tasks[Len(tasks)].status = "new"
        /\ tasks[Len(tasks)].priority =
               IF Member(lower(call[4]), priority_options)
               THEN lower(call[4]) ELSE "medium"
        /\ Member(tasks[Len(tasks)].priority, priority_options)

\* a create with the priority "urgent" after a create with "HIGH"
C12_Witness ==
    /\ Called("add_task")
    /\ call[4] = "urgent"
    /\ Len(tasks) = 2
    /\ tasks[1].priority = "high"
    /\ tasks[2].priority = "medium"
    /\ tasks[2].status = "new"

\* C13: save_tasks leaves the collection and next_id as they were, when the
\* file is written and when opening or writing it fails.
C13_SaveKeepsStore ==
    Called("save_tasks") =>
        /\ tasks = before.tasks
        /\ next_id = before.next_id

\* a save that failed in mid-write on a store that holds a task
C13_Witness ==
    /\ Called("save_tasks")
    /\ call[2] = "write_failed"
    /\ raised = "OSError"
    /\ file = GarbageFile
    /\ tasks # <<>>
    /\ tasks = before.tasks
    /\ next_id > 1

\* C14: edit_task on an existing task changes none of title, description,
\* status and priority whose argument is None or empty, sets title and
\* description to a supplied argument, and leaves the task's id and
\* created_at, every other task, the number and the ids of the tasks and
\* next_id as they were.
C14_EditChangesOnlySupplied ==
    (Called("edit_task") /\ Matches(before.tasks, call[2])) =>
        LET i == FirstWithId(before.tasks, int(call[2]))
            old == before.tasks[i]
            new == tasks[i]
        IN  /\ raised = "none"
            /\ Len(tasks) = Len(before.tasks)
            /\ \A j \in DOMAIN tasks : j # i => tasks[j] = before.tasks[j]
            /\ new.id = old.id
            /\ new.created_at = old.created_at
            /\ new.title = IF Truthy(call[3]) THEN call[3] ELSE old.title
            /\ new.description = IF Truthy(call[4]) THEN call[4] ELSE old.description
            /\ ~Truthy(call[5]) => new.status = old.status
            /\ ~Truthy(call[6]) => new.priority = old.priority
            /\ Ids(tasks) = Ids(before.tasks)
            /\ next_id = before.next_id

\* an edit of the second of two tasks with an empty title, no description,
\* a new status and no priority
C14_Witness ==
    /\ Called("edit_task")
    /\ call[2] = "2"
    /\ call[3] = ""
    /\ call[4] = None
    /\ call[5] = "DONE"
    /\ call[6] = None
    /\ Len(before.tasks) = 2
    /\ before.tasks[2].id = 2
    /\ before.tasks[2].status = "new"
    /\ tasks[2].status = "done"
    /\ tasks[2].title = before.tasks[2].title
    /\ tasks[1] = before.tasks[1]

\* C15: list_tasks, called with any filters or from the menu, leaves the
\* collection (tasks, fields and order) and next_id as they were.
C15_ListKeepsStore ==
    (Called("list_tasks") \/ Called("menu_list")) =>
        /\ tasks = before.tasks
        /\ next_id = before.next_id

\* a list that returns the two tasks in the order opposite to the stored one
C15_Witness ==
    /\ Called("list_tasks")
    /\ Len(tasks) = 2
    /\ ret = <<tasks[2], tasks[1]>>
    /\ ret # tasks
    /\ tasks = before.tasks

\* C16: next_id is greater than the id of every task of the collection, and
\* no call of add_task, edit_task, delete_task, list_tasks or save_tasks
\* returns with next_id lower than it was.
C16_NextIdAboveIds ==
    /\ \A i \in DOMAIN tasks : tasks[i].id < next_id
    /\ (call # <<>> /\ call[1] # "__init__") => next_id >= before.next_id

\* a store constructed from a saved file whose only task has the id 2
C16_Witness ==
    /\ Called("__init__")
    /\ earlier = {1, 2}
    /\ Ids(tasks) = {2}
    /\ next_id = 3

\* C17 as stated: the id add_task assigns was assigned by no add_task
\* before, in this store or in a store of an earlier run that was saved.
C17_IdNeverAssignedAgain ==
    Called("add_task") =>
        /\ created[Len(created)] \notin earlier
        /\ \A k \in 1 .. (Len(created) - 1) : created[k] # created[Len(created)]

\* C17: the id add_task assigns is the id of no task of the collection,
\* as construction loaded it or as the calls since left it, and was
\* assigned by no add_task on this store; it is greater than every id
\* of the collection.
C17_IdNotHeldNorAssignedInStore ==
    Called("add_task") =>
        LET new == tasks[Len(tasks)].id IN
        /\ new \notin Ids(before.tasks)
        /\ \A i \in DOMAIN before.tasks : before.tasks[i].id < new
        /\ \A k \in 1 .. (Len(created) - 1) : created[k] # new

\* add_task gives a task an id that an add_task of a saved earlier run
\* gave to a task deleted before the save
C17_Witness ==
    /\ Called("add_task")
    /\ created[Len(created)] \in earlier
    /\ tasks[Len(tasks)].id \notin Ids(before.tasks)

====
